---- MODULE Spec2Model ----
(***************************************************************************)
(* A model of stix2validator/util.py: the ValidationOptions constructor,   *)
(* check_spec (spec_version reconciliation and check-code expansion) and   *)
(* the requests cache helpers.                                             *)
(*                                                                         *)
(* Python values are modelled as follows.                                  *)
(*   - A str that the code splits or looks up (disabled / enabled and the  *)
(*     registry keys and names) is a sequence of tokens; a token is one    *)
(*     character of the input alphabet or one whole registry name, so that *)
(*     str.split(',') and dict lookup are computed, not assumed.           *)
(*   - Version strings and ids are TLA+ strings; None is the string None.  *)
(*   - A document is a record: kind says what Python type it is, and the   *)
(*     keys of a mapping are fields whose value Absent means "no such key".*)
(***************************************************************************)
EXTENDS Integers, Sequences, FiniteSets, TLC

\* ------------------------------------------------------------------ bounds

\* Largest number of member objects in a bundle's 'objects' list.
MaxObjs == 3
\* Largest total number of tokens in the disabled and enabled input strings.
MaxLen == 4
\* Largest number of responses held by the requests cache.
MaxEntries == 2
\* Largest reading of the wall clock.
MaxTime == 3

\* ------------------------------------------------------------- Python values

None == "None"
Absent == "<absent>"

DEFAULT_VER == "2.1"

\* Python truth value of a version-like value (None and '' are falsy).
Truthy(v) == v # None /\ v # Absent /\ v # ""

\* A Python str (token sequence) or list of str held by disabled / enabled.
PyStr(s) == [kind |-> "str", s |-> s, l |-> <<>>]
PyList(l) == [kind |-> "list", s |-> <<>>, l |-> l]

\* bool(x) for a str or a list.
NonEmpty(x) == IF x.kind = "str" THEN x.s # <<>> ELSE x.l # <<>>

\* str.split(','): the pieces between commas; '' splits into [''].
RECURSIVE split(_)
split(s) ==
    IF \A i \in 1..Len(s) : s[i] # ","
    THEN <<s>>
    ELSE LET i == CHOOSE j \in 1..Len(s) :
                      s[j] = "," /\ \A k \in 1..(j - 1) : s[k] # ","
         IN  <<SubSeq(s, 1, i - 1)>> \o split(SubSeq(s, i + 1, Len(s)))

\* needle in hay, for two str values (Python's substring test).
IsSubstring(needle, hay) ==
    \E i \in 1..(Len(hay) - Len(needle) + 1) :
        SubSeq(hay, i, i + Len(needle) - 1) = needle

\* ------------------------------------------------------------ check registries

\* The tokens an input string is written with: two digits, the separator, one
\* character that occurs in no code, and one whole canonical name.
Alphabet == {"1", "2", ",", "z", "format-checks"}

\* v21.enums.CHECK_CODES, as the table of codes documents it for DEFAULT_VER,
\* restricted to the codes that can be written with the digits of Alphabet (no
\* other key can equal an input piece).
CHECK_CODES21 ==
    (<<"1">> :> <<"format-checks">>) @@
    (<<"2">> :> <<"approved-values">>) @@
    (<<"1", "1", "1">> :> <<"open-vocab-format">>) @@
    (<<"1", "2", "1">> :> <<"kill-chain-names">>) @@
    (<<"2", "1", "1">> :> <<"attack-motivation">>) @@
    (<<"2", "1", "2">> :> <<"attack-resource-level">>) @@
    (<<"2", "2", "1">> :> <<"threat-actor-sophistication">>) @@
    (<<"2", "2", "2">> :> <<"tool-types">>)

\* v20.enums.CHECK_CODES: the legacy registry. The same codes; the vocabulary
\* checks carry their 2.0 names (tool-label for 222).
CHECK_CODES20 ==
    (<<"1">> :> <<"format-checks">>) @@
    (<<"2">> :> <<"approved-values">>) @@
    (<<"1", "1", "1">> :> <<"open-vocab-format">>) @@
    (<<"1", "2", "1">> :> <<"kill-chain-names">>) @@
    (<<"2", "1", "1">> :> <<"attack-motivation">>) @@
    (<<"2", "1", "2">> :> <<"attack-resource-level">>) @@
    (<<"2", "2", "1">> :> <<"threat-actor-sophistication">>) @@
    (<<"2", "2", "2">> :> <<"tool-label">>)

\* The registry object a check_codes reference denotes.
Registry(name) == IF name = "CHECK_CODES20" THEN CHECK_CODES20 ELSE CHECK_CODES21

\* The selection with the test turned around: the newer registry only for the
\* default version, the legacy one for everything else.
select_check_codes_default_only(version) ==
    IF version = DEFAULT_VER THEN "CHECK_CODES21" ELSE "CHECK_CODES20"

\* if version == '2.0': CHECK_CODES20 else: CHECK_CODES21
select_check_codes(version) ==
    IF version = "2.0" THEN "CHECK_CODES20" ELSE "CHECK_CODES21"

\* The expansion as [check_codes.get(x) for x in lst]: an entry that is no known
\* code becomes None instead of staying as it is.
expand_get(check_codes, lst) ==
    [i \in 1..Len(lst) |->
        IF lst[i] \in DOMAIN Registry(check_codes)
        THEN Registry(check_codes)[lst[i]]
        ELSE <<None>>]

\* [check_codes[x] if x in check_codes else x for x in lst]
expand(check_codes, lst) ==
    [i \in 1..Len(lst) |->
        IF lst[i] \in DOMAIN Registry(check_codes)
        THEN Registry(check_codes)[lst[i]]
        ELSE lst[i]]

\* ValidationOptions.__init__: if self.disabled: split it, then expand it.
init_expand(check_codes, x) ==
    IF NonEmpty(x) THEN PyList(expand(check_codes, split(x.s))) ELSE x

\* The expansion of check_spec adding the expanded entries to the list it already
\* holds instead of replacing it.
spec_expand_append(check_codes, x) ==
    IF NonEmpty(x)
    THEN PyList(x.l \o expand(check_codes, IF x.kind = "str" THEN split(x.s) ELSE x.l))
    ELSE x

\* check_spec: if options.disabled: split it if it is a str, then expand it.
spec_expand(check_codes, x) ==
    IF NonEmpty(x)
    THEN PyList(expand(check_codes, IF x.kind = "str" THEN split(x.s) ELSE x.l))
    ELSE x

\* The check with or in the place of and.
silent_or_verbose(silent, verbose) == silent \/ verbose

\* if self.silent and self.verbose: raise ValueError
silent_and_verbose(silent, verbose) == silent /\ verbose

\* ------------------------------------------------------------------ documents

\* A member of a bundle's 'objects': a mapping with optional 'id' and
\* 'spec_version', or a value that is no container (a number, null).
Member(kind, id, sv) == [kind |-> kind, id |-> id, spec_version |-> sv]

\* The id of the member at position i.
ObjId(i) == <<"o1", "o2", "o3", "o4", "o5">>[i]

MembersAt(i) ==
    {Member("dict", id, sv) : id \in {Absent, ObjId(i)}, sv \in {Absent, "2.0", "2.1"}}
        \cup {Member("int", Absent, Absent)}

RECURSIVE MemberLists(_)
MemberLists(n) ==
    IF n = 0 THEN {<<>>}
    ELSE MemberLists(n - 1) \cup
         {Append(l, m) : l \in {x \in MemberLists(n - 1) : Len(x) = n - 1},
                         m \in MembersAt(n)}

\* The value under 'objects': no such key, a list of members, or a value that
\* cannot be iterated.
NoObjects == [kind |-> "absent", items |-> <<>>]
ObjectsValues(n) ==
    {NoObjects, [kind |-> "int", items |-> <<>>]}
        \cup {[kind |-> "list", items |-> l] : l \in MemberLists(n)}

\* A parsed document: a mapping (dict), a value that is no container (int: a
\* number, null), or a str with its text.
Doc(kind, type, id, sv, objects, text) ==
    [kind |-> kind, type |-> type, id |-> id, spec_version |-> sv,
     objects |-> objects, text |-> text]

DictDocs(n) ==
    {Doc("dict", type, id, sv, objects, <<>>) :
        type \in {Absent, "bundle", "indicator"},
        id \in {Absent, "b1"},
        sv \in {Absent, "", "2.0", "2.1"},
        objects \in ObjectsValues(n)}

OtherDocs ==
    {Doc("int", Absent, Absent, Absent, NoObjects, <<>>),
     Doc("str", Absent, Absent, Absent, NoObjects, <<"z">>)}

\* The documents check_spec is called with.
Docs == DictDocs(MaxObjs) \cup OtherDocs

\* 'spec_version' in obj, which raises TypeError when obj is no container.
HasSpecVersion(obj) ==
    IF obj.kind = "dict" THEN obj.spec_version # Absent
    ELSE IsSubstring(<<"spec_version">>, obj.text)

\* ------------------------------------------------------------------ check_spec

\* The warning text: id + ": spec_version mismatch with command-line option.
\* Defaulting to spec_version " + version, as its three parts.
Warning(id, version) ==
    <<id, ": spec_version mismatch with command-line option. Defaulting to spec_version ",
      version>>

\* Lines 412-416: the bundle's own spec_version. exc says that an exception left
\* the try block at this point.
set_bundle(instance, version) ==
    IF instance.kind # "dict" \/ instance.type = Absent
    THEN [instance |-> instance, warnings |-> <<>>, exc |-> TRUE]
    ELSE IF instance.type = "bundle" /\ instance.spec_version # Absent
            /\ instance.spec_version # version
    THEN IF instance.id = Absent
         THEN [instance |-> [instance EXCEPT !.spec_version = version],
               warnings |-> <<>>, exc |-> TRUE]
         ELSE [instance |-> [instance EXCEPT !.spec_version = version],
               warnings |-> <<Warning(instance.id, version)>>, exc |-> FALSE]
    ELSE [instance |-> instance, warnings |-> <<>>, exc |-> FALSE]

\* Lines 418-424: the loop over instance['objects'], from its first member on.
RECURSIVE set_objects(_, _)
set_objects(items, version) ==
    IF items = <<>>
    THEN [items |-> <<>>, warnings |-> <<>>, exc |-> FALSE]
    ELSE LET obj == Head(items)
         IN  IF obj.kind # "dict"
             THEN [items |-> items, warnings |-> <<>>, exc |-> TRUE]
             ELSE IF obj.spec_version # Absent /\ obj.spec_version # version
             THEN IF obj.id = Absent
                  THEN [items |-> <<[obj EXCEPT !.spec_version = version]>> \o Tail(items),
                        warnings |-> <<>>, exc |-> TRUE]
                  ELSE LET r == set_objects(Tail(items), version)
                       IN  [items |-> <<[obj EXCEPT !.spec_version = version]>> \o r.items,
                            warnings |-> <<Warning(obj.id, version)>> \o r.warnings,
                            exc |-> r.exc]
             ELSE LET r == set_objects(Tail(items), version)
                  IN  [items |-> <<obj>> \o r.items, warnings |-> r.warnings,
                       exc |-> r.exc]

\* Lines 410-426: options.version is set; the try block and its except: pass.
reconcile(instance, version) ==
    LET b == set_bundle(instance, version)
    IN  IF b.exc
        THEN [instance |-> b.instance, warnings |-> b.warnings]
        ELSE IF b.instance.type = "bundle" /\ b.instance.objects.kind # "absent"
        THEN IF b.instance.objects.kind # "list"
             THEN [instance |-> b.instance, warnings |-> b.warnings]
             ELSE LET r == set_objects(b.instance.objects.items, version)
                  IN  [instance |-> [b.instance EXCEPT !.objects.items = r.items],
                       warnings |-> b.warnings \o r.warnings]
        ELSE [instance |-> b.instance, warnings |-> b.warnings]

\* Lines 433-435: the loop that reads the members' spec_version, from its first
\* member on; version is options.version so far.
RECURSIVE read_objects(_, _)
read_objects(items, version) ==
    IF items = <<>> THEN version
    ELSE LET obj == Head(items)
         IN  IF obj.kind # "dict" THEN version
             ELSE IF obj.spec_version # Absent
             THEN read_objects(Tail(items), obj.spec_version)
             ELSE read_objects(Tail(items), version)

\* Lines 431-437: the try block of the branch without an option version.
read_bundle(instance, version) ==
    IF instance.kind # "dict" \/ instance.type = Absent THEN version
    ELSE IF instance.type = "bundle" /\ instance.objects.kind = "list"
    THEN read_objects(instance.objects.items, version)
    ELSE version

\* Lines 429-430, outside any try: TRUE when they raise TypeError.
read_top_raises(instance) ==
    \/ instance.kind = "int"
    \/ instance.kind = "str" /\ HasSpecVersion(instance)

\* Lines 429-440: the version the document gives, when lines 429-430 do not raise.
read_version(instance, version) ==
    LET top == IF instance.kind = "dict" /\ HasSpecVersion(instance)
               THEN instance.spec_version ELSE version
        seen == read_bundle(instance, top)
    IN  IF Truthy(seen) THEN seen ELSE "2.0"

\* Lines 442-456: resolve the registry and expand disabled and enabled.
resolve(options) ==
    LET cc == select_check_codes(options.version)
    IN  [options EXCEPT !.check_codes = cc,
                        !.disabled = spec_expand(cc, options.disabled),
                        !.enabled = spec_expand(cc, options.enabled)]

\* check_spec without the test of line 410: the version is read from the document
\* on every call, whether or not the options already have one.
check_spec_rereads(instance, options) ==
    IF read_top_raises(instance)
    THEN [options |-> options, instance |-> instance, warnings |-> <<>>,
          outcome |-> "TypeError"]
    ELSE [options |-> resolve([options EXCEPT
                                   !.version = read_version(instance, options.version)]),
          instance |-> instance, warnings |-> <<>>, outcome |-> "returned"]

\* check_spec(instance, options): the options and the document as the call leaves
\* them, the returned warnings, and how the call ended.
check_spec(instance, options) ==
    IF Truthy(options.version)
    THEN LET r == reconcile(instance, options.version)
         IN  [options |-> resolve(options), instance |-> r.instance,
              warnings |-> r.warnings, outcome |-> "returned"]
    ELSE IF read_top_raises(instance)
    THEN [options |-> options, instance |-> instance, warnings |-> <<>>,
          outcome |-> "TypeError"]
    ELSE [options |-> resolve([options EXCEPT
                                   !.version = read_version(instance, options.version)]),
          instance |-> instance, warnings |-> <<>>, outcome |-> "returned"]

\* ---------------------------------------------------------------------- state

VARIABLES
    options,    \* the ValidationOptions object in use, or NoOptions
    output,     \* the output module's level and silent settings
    instance,   \* the document last given to check_spec, as the call left it
    warnings,   \* the warnings the last check_spec returned
    outcome,    \* how the last call ended: returned, or the exception raised
    call,       \* the call that has just ended, with its arguments, until the
                \* caller has taken its result
    built_with, \* how the options object in use was constructed and with which
                \* disabled and enabled arguments (history, never read by the code)
    cache_dir,  \* the user cache directory: absent, exists or blocked
    installed,  \* whether requests_cache.install_cache has run
    responses,  \* the cached responses, each with its created_at
    clock       \* the wall clock, as datetime.utcnow() reads it

optionVars == <<options, output, instance, warnings, outcome, call, built_with>>
cacheVars == <<cache_dir, installed, responses, clock>>
vars == <<options, output, instance, warnings, outcome, call, built_with,
          cache_dir, installed, responses, clock>>

NoOptions == [none |-> TRUE]
NoDoc == [kind |-> "none"]
NoArguments == [none |-> TRUE]

Init ==
    /\ options = NoOptions
    /\ output = [verbose |-> FALSE, silent |-> FALSE]
    /\ instance = NoDoc
    /\ warnings = <<>>
    /\ outcome = "none"
    /\ call = [op |-> "none"]
    /\ built_with = NoArguments
    /\ cache_dir = "absent"
    /\ installed = FALSE
    /\ responses = {}
    /\ clock = 0

\* ------------------------------------------------- ValidationOptions.__init__

\* Lines 371-391, after the attributes are assigned: the silent/verbose check,
\* the output settings, the registry and the expansion of disabled and enabled.
\* version, verbose, silent, disabled and enabled are the attributes assigned.
\* (files, recursive, schema_dir, the strict flags, the cache flags and
\* enforce_refs are copied and never read again in this file.)
finish_init(op, given, version, verbose, silent, disabled, enabled) ==
    LET check_codes == select_check_codes(version)
    IN  IF silent_and_verbose(silent, verbose)
        THEN /\ options' = NoOptions
             /\ outcome' = "ValueError"
             /\ call' = [op |-> op, version |-> given, verbose |-> verbose,
                         silent |-> silent, disabled |-> disabled,
                         enabled |-> enabled, check_codes |-> Absent]
             /\ UNCHANGED <<output, built_with>>
        ELSE /\ options' = [version |-> version, verbose |-> verbose,
                            silent |-> silent,
                            disabled |-> init_expand(check_codes, disabled),
                            enabled |-> init_expand(check_codes, enabled),
                            check_codes |-> Absent]
             /\ output' = [verbose |-> verbose, silent |-> silent]
             /\ outcome' = "returned"
             /\ call' = [op |-> op, version |-> given, verbose |-> verbose,
                         silent |-> silent, disabled |-> disabled,
                         enabled |-> enabled, check_codes |-> check_codes]
             /\ built_with' = [op |-> op, disabled |-> disabled, enabled |-> enabled]

\* The values of the version argument.
Versions == {None, "2.0", "2.1", "2.2"}

\* No call is waiting for its result to be taken.
Idle == call.op = "none"

\* ValidationOptions(cmd_args): every attribute is read from cmd_args. One
\* options object is constructed per run. pairs holds the disabled and enabled
\* inputs to choose from.
InitFromArgs(pairs) ==
    /\ Idle
    /\ options = NoOptions
    /\ \E version \in Versions, verbose \in BOOLEAN, silent \in BOOLEAN, p \in pairs :
          finish_init("cmd_args", version, version, verbose, silent,
                      PyStr(p[1]), PyStr(p[2]))
    /\ UNCHANGED <<instance, warnings>>
    /\ UNCHANGED cacheVars

\* ValidationOptions(version=..., verbose=..., ...): self.version = None.
InitFromKeywords(pairs) ==
    /\ Idle
    /\ options = NoOptions
    /\ \E version \in Versions, verbose \in BOOLEAN, silent \in BOOLEAN, p \in pairs :
          finish_init("keywords", version, None, verbose, silent,
                      PyStr(p[1]), PyStr(p[2]))
    /\ UNCHANGED <<instance, warnings>>
    /\ UNCHANGED cacheVars

\* check_spec(doc, options) on the options object in use, for a document of docs.
CheckSpec(docs) ==
    /\ Idle
    /\ options # NoOptions
    /\ \E doc \in docs :
          /\ LET r == check_spec(doc, options)
             IN  /\ options' = r.options
                 /\ instance' = r.instance
                 /\ warnings' = r.warnings
                 /\ outcome' = r.outcome
          /\ call' = [op |-> "check_spec", instance |-> doc, options |-> options]
    /\ UNCHANGED <<output, built_with>>
    /\ UNCHANGED cacheVars

\* The caller takes the result of the call that ended and lets go of the
\* document and the warnings; the options object stays in use.
Return ==
    /\ ~Idle
    /\ call.op \in {"cmd_args", "keywords", "check_spec"}
    /\ call' = [op |-> "none"]
    /\ instance' = NoDoc
    /\ warnings' = <<>>
    /\ outcome' = "none"
    /\ UNCHANGED <<options, output, built_with>>
    /\ UNCHANGED cacheVars

\* ------------------------------------------------------------ requests cache

\* The keys of the responses the checks may fetch.
Keys == 1..MaxEntries

\* requests_cache's remove_old_entries(created_before): the responses that stay
\* are those not created before created_before.
remove_old_entries(cached, created_before) ==
    {r \in cached : ~(r.created_at < created_before)}

\* os.makedirs(dirs.user_cache_dir) and the except clause of lines 485-489:
\* TRUE when the OSError is raised again (its errno is not EEXIST).
makedirs_raises(dir) == dir = "blocked"

\* init_requests_cache(refresh_cache).
InitRequestsCache ==
    /\ Idle
    /\ \E refresh_cache \in BOOLEAN :
          /\ call' = [op |-> "init_requests_cache", refresh_cache |-> refresh_cache,
                      installed |-> installed, responses |-> responses]
          /\ IF makedirs_raises(cache_dir)
             THEN /\ outcome' = "OSError"
                  /\ UNCHANGED <<cache_dir, installed, responses>>
             ELSE /\ cache_dir' = "exists"
                  /\ installed' = TRUE
                  /\ responses' = IF refresh_cache
                                  THEN remove_old_entries(responses, clock)
                                  ELSE responses
                  /\ outcome' = "returned"
    /\ UNCHANGED <<options, output, instance, warnings, built_with, clock>>

\* clear_requests_cache(): get_cache() needs an installed cache.
ClearRequestsCache ==
    /\ Idle
    /\ call' = [op |-> "clear_requests_cache", installed |-> installed,
                responses |-> responses]
    /\ IF installed
       THEN /\ responses' = remove_old_entries(responses, clock)
            /\ outcome' = "returned"
       ELSE /\ outcome' = "AttributeError"
            /\ UNCHANGED responses
    /\ UNCHANGED <<options, output, instance, warnings, built_with,
                 cache_dir, installed, clock>>

\* A check fetches a response that is not cached: the installed cache stores it
\* with created_at = datetime.utcnow().
StoreResponse ==
    /\ Idle
    /\ installed
    /\ \E key \in Keys :
          /\ \A r \in responses : r.key # key
          /\ responses' = responses \cup {[key |-> key, created_at |-> clock]}
    /\ UNCHANGED <<options, output, instance, warnings, outcome, call, built_with,
                   cache_dir, installed, clock>>

\* Time passes: datetime.utcnow() reads a later instant.
Tick ==
    /\ clock < MaxTime
    /\ clock' = clock + 1
    /\ UNCHANGED <<options, output, instance, warnings, outcome, call, built_with,
                   cache_dir, installed, responses>>

\* The wall clock is set back (utcnow() is not monotonic).
SetBack ==
    /\ clock > 0
    /\ clock' = clock - 1
    /\ UNCHANGED <<options, output, instance, warnings, outcome, call, built_with,
                   cache_dir, installed, responses>>

\* The caller takes the result of a cache call.
ReturnCache ==
    /\ call.op \in {"init_requests_cache", "clear_requests_cache"}
    /\ call' = [op |-> "none"]
    /\ outcome' = "none"
    /\ UNCHANGED <<options, output, instance, warnings, built_with>>
    /\ UNCHANGED cacheVars

\* --------------------------------------------------------------------- inputs

\* Every str of the given length over Alphabet.
RECURSIVE Strings(_)
Strings(n) ==
    IF n = 0 THEN {<<>>}
    ELSE {Append(s, c) : s \in Strings(n - 1), c \in Alphabet}

\* The disabled and enabled inputs: two strings of at most MaxLen tokens together.
StringPairs ==
    UNION {Strings(i) \X Strings(j) : <<i, j>> \in
              {p \in (0..MaxLen) \X (0..MaxLen) : p[1] + p[2] <= MaxLen}}

\* Two disabled and enabled inputs, for the runs that vary the document.
FewStringPairs ==
    {<<<<>>, <<>>>>, <<<<"1", ",", "z">>, <<"2", "2", "2">>>>}

\* A few documents, for the runs that vary the disabled and enabled inputs.
FewDocs ==
    {Doc("dict", "indicator", "b1", Absent, NoObjects, <<>>),
     Doc("dict", "bundle", "b1", "2.0", NoObjects, <<>>),
     Doc("dict", "bundle", "b1", Absent,
         [kind |-> "list", items |-> <<Member("dict", ObjId(1), "2.1")>>], <<>>),
     Doc("int", Absent, Absent, Absent, NoObjects, <<>>)}

\* ------------------------------------------------------------- specifications

\* Options and documents: every document shape, a few disabled/enabled inputs.
Next ==
    \/ InitFromArgs(FewStringPairs)
    \/ InitFromKeywords(FewStringPairs)
    \/ CheckSpec(Docs)
    \/ Return

Spec == Init /\ [][Next]_vars

\* Expansion: every disabled/enabled input, a few documents.
NextExpand ==
    \/ InitFromArgs(StringPairs)
    \/ InitFromKeywords(StringPairs)
    \/ CheckSpec(FewDocs)
    \/ Return

SpecExpand == Init /\ [][NextExpand]_vars

\* The requests cache: the cache directory may exist, be absent or be impossible
\* to create (a file in its place, no permission).
InitCache ==
    /\ options = NoOptions
    /\ output = [verbose |-> FALSE, silent |-> FALSE]
    /\ instance = NoDoc
    /\ warnings = <<>>
    /\ outcome = "none"
    /\ call = [op |-> "none"]
    /\ built_with = NoArguments
    /\ cache_dir \in {"absent", "exists", "blocked"}
    /\ installed = FALSE
    /\ responses = {}
    /\ clock = 0

NextCache ==
    \/ InitRequestsCache
    \/ ClearRequestsCache
    \/ StoreResponse
    \/ Tick
    \/ SetBack
    \/ ReturnCache

SpecCache == InitCache /\ [][NextCache]_vars

\* --------------------------------------------------------------------- claims

ConstructorEnded == call.op \in {"cmd_args", "keywords"}
CheckSpecEnded == call.op = "check_spec"

\* C1: constructing a ValidationOptions, from cmd_args or from keywords, raises
\* ValueError exactly when silent and verbose are both true; in every other case
\* the construction returns an options object.
C1_SilentVerboseRejected ==
    ConstructorEnded =>
        /\ (call.silent /\ call.verbose) => outcome = "ValueError" /\ options = NoOptions
        /\ ~(call.silent /\ call.verbose) =>
               /\ outcome = "returned"
               /\ options # NoOptions
               /\ options.silent = call.silent
               /\ options.verbose = call.verbose

C1_Rejected ==
    /\ call.op = "keywords"
    /\ call.silent /\ call.verbose
    /\ outcome = "ValueError"

\* The members of a document's 'objects' list (none when it has no such list).
ItemsOf(doc) == IF doc.objects.kind = "list" THEN doc.objects.items ELSE <<>>

\* The member carries a spec_version that differs from version.
Mismatched(m, version) ==
    m.kind = "dict" /\ m.spec_version # Absent /\ m.spec_version # version

\* One warning per mismatched member, in the order of the list.
RECURSIVE MemberWarnings(_, _)
MemberWarnings(items, version) ==
    IF items = <<>> THEN <<>>
    ELSE (IF Mismatched(Head(items), version)
          THEN <<Warning(Head(items).id, version)>> ELSE <<>>)
         \o MemberWarnings(Tail(items), version)

\* C2: with an option version V, check_spec on a bundle leaves the bundle's own
\* spec_version (if present) and every member's spec_version (if present) equal to
\* V, leaves the members that already matched unchanged, and returns exactly one
\* warning per rewritten object, naming its id.
C2_BundleReconciled ==
    (/\ CheckSpecEnded
     /\ Truthy(call.options.version)
     /\ call.instance.kind = "dict"
     /\ call.instance.type = "bundle") =>
        LET V == call.options.version
            before == call.instance
        IN  /\ outcome = "returned"
            /\ instance.spec_version # Absent => instance.spec_version = V
            /\ Len(ItemsOf(instance)) = Len(ItemsOf(before))
            /\ \A i \in 1..Len(ItemsOf(before)) :
                  LET m == ItemsOf(instance)[i]
                  IN  /\ (m.kind = "dict" /\ m.spec_version # Absent) => m.spec_version = V
                      /\ ~Mismatched(ItemsOf(before)[i], V) => m = ItemsOf(before)[i]
            /\ warnings =
                  (IF before.spec_version # Absent /\ before.spec_version # V
                   THEN <<Warning(before.id, V)>> ELSE <<>>)
                  \o MemberWarnings(ItemsOf(before), V)

\* The spec_version of the last member that carries one, or Absent.
RECURSIVE LastMemberVersion(_)
LastMemberVersion(items) ==
    IF items = <<>> THEN Absent
    ELSE LET m == items[Len(items)]
         IN  IF m.kind = "dict" /\ m.spec_version # Absent
             THEN m.spec_version
             ELSE LastMemberVersion(SubSeq(items, 1, Len(items) - 1))

\* A mapping whose spec_version, if any, is not empty and whose 'objects', if any,
\* is a list of mappings.
WellFormed(doc) ==
    /\ doc.kind = "dict"
    /\ doc.spec_version # ""
    /\ doc.objects.kind # "int"
    /\ \A i \in 1..Len(ItemsOf(doc)) : ItemsOf(doc)[i].kind = "dict"

\* C3: without an option version, check_spec takes the document's top-level
\* spec_version if there is one; only without it the last spec_version among the
\* bundle's members; only without both, "2.0". Stated for well-formed documents.
C3_TopLevelVersionFirst ==
    (/\ CheckSpecEnded
     /\ ~Truthy(call.options.version)
     /\ WellFormed(call.instance)) =>
        LET before == call.instance
            members == IF before.type = "bundle" THEN ItemsOf(before) ELSE <<>>
        IN  options.version =
                IF before.spec_version # Absent THEN before.spec_version
                ELSE IF LastMemberVersion(members) # Absent
                     THEN LastMemberVersion(members)
                     ELSE "2.0"

\* C4: check_spec never raises, whatever the shape of the document and whether or
\* not the options carry a version; it returns the options and the warnings.
C4_CheckSpecNeverRaises ==
    CheckSpecEnded => outcome = "returned"

\* The positions of the commas of a str.
Commas(s) == {i \in 1..Len(s) : s[i] = ","}

\* The k-th comma-separated entry of a str: the tokens that are no comma and have
\* k - 1 commas before them.
Entry(s, k) ==
    LET at == {i \in 1..Len(s) :
                  s[i] # "," /\ Cardinality({j \in Commas(s) : j < i}) = k - 1}
    IN  IF at = {} THEN <<>>
        ELSE SubSeq(s, CHOOSE i \in at : \A j \in at : i <= j,
                       CHOOSE i \in at : \A j \in at : i >= j)

\* The entries of a disabled / enabled value: those of the str, or the list's own.
Entries(x) ==
    IF x.kind = "str"
    THEN [k \in 1..(Cardinality(Commas(x.s)) + 1) |-> Entry(x.s, k)]
    ELSE x.l

\* after holds the entries of before, in the same number and order, each known
\* code replaced by its name in the registry and every other entry as it was. An
\* empty value has no entries and stays as it is.
ExpandedFrom(after, before, registry) ==
    IF ~NonEmpty(before) THEN after = before
    ELSE /\ after.kind = "list"
         /\ Len(after.l) = Len(Entries(before))
         /\ \A k \in 1..Len(after.l) :
               LET e == Entries(before)[k]
               IN  after.l[k] = IF e \in DOMAIN registry THEN registry[e] ELSE e

\* C5: the expansion of disabled and enabled, in the constructor and in check_spec,
\* keeps the number and the order of the comma-separated entries, replaces each
\* code known to the resolved registry by its name and leaves every other entry
\* unchanged.
C5_ExpansionMapsKnownCodes ==
    /\ (ConstructorEnded /\ outcome = "returned") =>
           /\ ExpandedFrom(options.disabled, call.disabled, Registry(call.check_codes))
           /\ ExpandedFrom(options.enabled, call.enabled, Registry(call.check_codes))
    /\ (CheckSpecEnded /\ outcome = "returned") =>
           /\ ExpandedFrom(options.disabled, call.options.disabled,
                           Registry(options.check_codes))
           /\ ExpandedFrom(options.enabled, call.options.enabled,
                           Registry(options.check_codes))

C5_MixedInputExpanded ==
    /\ call.op = "keywords"
    /\ outcome = "returned"
    /\ call.disabled = PyStr(<<"z", ",", "2">>)
    /\ options.disabled = PyList(<< <<"z">>, <<"approved-values">> >>)

\* C6: the registry is selected by the version of the options: the legacy registry
\* for exactly "2.0", the newer one for every other value, in the constructor and
\* in check_spec; after check_spec returns, options.check_codes is the registry that
\* matches options.version.
C6_RegistryFollowsVersion ==
    /\ (ConstructorEnded /\ outcome = "returned") =>
           /\ options.version = "2.0" => call.check_codes = "CHECK_CODES20"
           /\ options.version # "2.0" => call.check_codes = "CHECK_CODES21"
    /\ (CheckSpecEnded /\ outcome = "returned") =>
           /\ options.version = "2.0" => options.check_codes = "CHECK_CODES20"
           /\ options.version # "2.0" => options.check_codes = "CHECK_CODES21"

C6_LegacySelectedFromDocument ==
    /\ CheckSpecEnded
    /\ outcome = "returned"
    /\ call.options.version = None
    /\ options.version = "2.0"
    /\ options.check_codes = "CHECK_CODES20"

\* C7: a ValidationOptions built from keywords with version = V has version V
\* afterwards, as one built from cmd_args whose version is V has.
C7_KeywordVersionKept ==
    (ConstructorEnded /\ outcome = "returned") => options.version = call.version

\* No spec_version at the top level of the document nor in any member object.
NoSpecVersionAnywhere(doc) ==
    /\ doc.spec_version = Absent
    /\ \A i \in 1..Len(ItemsOf(doc)) : ItemsOf(doc)[i].spec_version = Absent

\* C8: given options without a version and a document without any spec_version
\* field, check_spec sets options.version to "2.0", selects the legacy registry and
\* returns no warning.
C8_DefaultsToLegacy ==
    (/\ CheckSpecEnded
     /\ ~Truthy(call.options.version)
     /\ NoSpecVersionAnywhere(call.instance)) =>
        /\ outcome = "returned"
        /\ options.version = "2.0"
        /\ options.check_codes = "CHECK_CODES20"
        /\ warnings = <<>>

\* The canonical names of the two registries.
Names ==
    {CHECK_CODES20[c] : c \in DOMAIN CHECK_CODES20}
        \cup {CHECK_CODES21[c] : c \in DOMAIN CHECK_CODES21}

\* A list all of whose entries are canonical names.
AllCanonical(x) == x.kind = "list" /\ \A k \in 1..Len(x.l) : x.l[k] \in Names

\* C9: check_spec leaves a disabled or enabled list of canonical names unchanged,
\* and once a check_spec has returned on an options object, no later check_spec
\* changes its disabled and enabled lists.
C9_ExpansionIdempotent ==
    CheckSpecEnded =>
        /\ AllCanonical(call.options.disabled) =>
               options.disabled = call.options.disabled
        /\ AllCanonical(call.options.enabled) =>
               options.enabled = call.options.enabled
        /\ call.options.check_codes # Absent =>
               /\ options.disabled = call.options.disabled
               /\ options.enabled = call.options.enabled

C9_ExpandedListKept ==
    /\ CheckSpecEnded
    /\ outcome = "returned"
    /\ call.options.check_codes # Absent
    /\ call.options.disabled = PyList(<< <<"format-checks">>, <<"z">> >>)
    /\ options.disabled = call.options.disabled
    /\ options.enabled = call.options.enabled

\* C10: init_requests_cache called again after it has run does not raise, and a
\* clear_requests_cache called after it leaves no response in the cache, however
\* many were cached.
C10_ClearLeavesNothing ==
    /\ (call.op = "init_requests_cache" /\ call.installed) => outcome = "returned"
    /\ (call.op = "clear_requests_cache" /\ call.installed) =>
           outcome = "returned" /\ responses = {}

\* The registry of an effective version, as the registry section describes it.
RegistryOfVersion(version) == IF version = "2.0" THEN CHECK_CODES20 ELSE CHECK_CODES21

\* C11: for an options object constructed from keywords, once check_spec has
\* fixed the effective version from the document, disabled and enabled hold the
\* entries the object was constructed with, each code replaced by its name in the
\* registry of that effective version (the legacy registry for "2.0").
C11_ExpandedThroughEffectiveRegistry ==
    (/\ CheckSpecEnded
     /\ outcome = "returned"
     /\ built_with.op = "keywords"
     /\ call.options.version = None
     /\ call.options.check_codes = Absent) =>
        /\ ExpandedFrom(options.disabled, built_with.disabled,
                        RegistryOfVersion(options.version))
        /\ ExpandedFrom(options.enabled, built_with.enabled,
                        RegistryOfVersion(options.version))

\* An earlier check_spec has returned on the options object of the call: only
\* lines 442-445 give the object a check_codes attribute.
EarlierCallReturned == call.options.check_codes # Absent

\* C12: on one options object, a check_spec that returns leaves options.version
\* non-empty; every check_spec after one that returned finds the version set (it
\* does not read it from the document again), returns, and leaves options.version
\* and options.check_codes as they were; it rewrites the bundle's own spec_version
\* to that version, changes a member's spec_version to nothing but that version,
\* and names that version in every warning.
C12_VersionFixedByFirstCall ==
    CheckSpecEnded =>
        /\ outcome = "returned" =>
               Truthy(options.version) /\ options.check_codes # Absent
        /\ EarlierCallReturned =>
               LET V == call.options.version
               IN  /\ Truthy(V)
                   /\ outcome = "returned"
                   /\ options.version = V
                   /\ options.check_codes = call.options.check_codes
                   /\ (/\ call.instance.kind = "dict"
                       /\ call.instance.type = "bundle"
                       /\ call.instance.spec_version # Absent) =>
                          instance.spec_version = V
                   /\ call.instance.kind = "dict" =>
                          \A i \in 1..Len(ItemsOf(call.instance)) :
                              \/ ItemsOf(instance)[i] = ItemsOf(call.instance)[i]
                              \/ ItemsOf(instance)[i].spec_version = V
                   /\ \A k \in 1..Len(warnings) : warnings[k][3] = V

\* A second check_spec on an options object built from keywords: the first
\* document fixed "2.0", the second is a bundle that says "2.1" and is rewritten.
C12_SecondDocumentReconciled ==
    /\ CheckSpecEnded
    /\ outcome = "returned"
    /\ built_with.op = "keywords"
    /\ EarlierCallReturned
    /\ call.options.version = "2.0"
    /\ call.instance.kind = "dict"
    /\ call.instance.type = "bundle"
    /\ call.instance.spec_version = "2.1"
    /\ options.version = "2.0"
    /\ options.check_codes = "CHECK_CODES20"
    /\ instance.spec_version = "2.0"

====
